---- MODULE Spec2Model ----
(***************************************************************************)
(* Model of cluster-hooks/block-dangerous-git.py: a PreToolUse hook that   *)
(* reads one JSON request on standard input and denies dangerous git       *)
(* commands when ZEROSHOT_WORKTREE=1.                                      *)
(*                                                                         *)
(* Python str values are TLA+ strings; the character at index i of s is    *)
(* SubSeq(s, i, i).  Other Python values are tagged tuples:                *)
(*   <<"str", s>>  <<"int", lexeme>>  <<"float", lexeme>>  <<"bool", b>>   *)
(*   <<"NoneType">>  <<"list", items>>  <<"dict", pairs>>  <<"tuple", xs>> *)
(* A dict is its insertion-ordered sequence of <<key, value>> pairs.       *)
(***************************************************************************)
EXTENDS Integers, Sequences, FiniteSets, TLC

(***************************************************************************)
(* Characters                                                              *)
(***************************************************************************)
CharAt(s, i) == IF i >= 1 /\ i <= Len(s) THEN SubSeq(s, i, i) ELSE ""

\* s[i-1:j] of Python: a slice is clipped to the string
Slice(s, i, j) ==
    IF i > Len(s) \/ j < i THEN "" ELSE SubSeq(s, i, IF j > Len(s) THEN Len(s) ELSE j)

CharsOf(s) == { SubSeq(s, i, i) : i \in 1..Len(s) }

Lower == "abcdefghijklmnopqrstuvwxyz"
Upper == "ABCDEFGHIJKLMNOPQRSTUVWXYZ"
Digits == "0123456789"

\* the letter c in the other case, any other character unchanged
SwapChar(c) ==
    IF \E n \in 1..Len(Lower) : CharAt(Lower, n) = c
    THEN CharAt(Upper, CHOOSE n \in 1..Len(Lower) : CharAt(Lower, n) = c)
    ELSE IF \E n \in 1..Len(Upper) : CharAt(Upper, n) = c
    THEN CharAt(Lower, CHOOSE n \in 1..Len(Upper) : CharAt(Upper, n) = c)
    ELSE c

IsLetter(c) == c # "" /\ c \in (CharsOf(Lower) \cup CharsOf(Upper))

\* \w of the re module for the characters of the model's alphabet
WordChars == CharsOf(Lower) \cup CharsOf(Upper) \cup CharsOf(Digits) \cup {"_"}

\* \s of the re module for the characters of the model's alphabet
SpaceChars == {" ", "\t", "\n", "\r", "\f"}

(***************************************************************************)
(* re: the subset of the regular-expression syntax DANGEROUS_PATTERNS uses *)
(* A compiled pattern is a sequence of atoms <<kind, chars, neg, min, many>>*)
(*   kind "b": \b      kind "$": $                                         *)
(*   kind "c": one character x with (x \in chars) # neg, repeated          *)
(*             min.. times (many) or exactly once                          *)
(***************************************************************************)
AtomB == <<"b", {}, FALSE, 0, FALSE>>
AtomEnd == <<"$", {}, FALSE, 0, FALSE>>
AtomChar(chars, neg) == <<"c", chars, neg, 1, FALSE>>

RECURSIVE IndexOf(_, _, _)
\* smallest index >= i of character c in s, or 0
IndexOf(s, c, i) ==
    IF i > Len(s) THEN 0
    ELSE IF CharAt(s, i) = c THEN i ELSE IndexOf(s, c, i + 1)

\* the atom that starts at index i of pattern p, and the index after it
AtomAt(p, i) ==
    LET c == CharAt(p, i) IN
    IF c = "\\" THEN
        LET e == CharAt(p, i + 1) IN
        <<(IF e = "b" THEN AtomB
           ELSE IF e = "s" THEN AtomChar(SpaceChars, FALSE)
           ELSE IF e = "S" THEN AtomChar(SpaceChars, TRUE)
           ELSE AtomChar({e}, FALSE)), i + 2>>
    ELSE IF c = "[" THEN
        LET j == IndexOf(p, "]", i + 1) IN
        <<AtomChar(CharsOf(SubSeq(p, i + 1, j - 1)), FALSE), j + 1>>
    ELSE IF c = "$" THEN <<AtomEnd, i + 1>>
    ELSE <<AtomChar({c}, FALSE), i + 1>>

RECURSIVE CompileFrom(_, _, _)
CompileFrom(p, i, acc) ==
    IF i > Len(p) THEN acc
    ELSE LET a == AtomAt(p, i)
             q == CharAt(p, a[2])
         IN IF a[1][1] = "c" /\ q = "+"
            THEN CompileFrom(p, a[2] + 1, Append(acc, <<"c", a[1][2], a[1][3], 1, TRUE>>))
            ELSE IF a[1][1] = "c" /\ q = "*"
            THEN CompileFrom(p, a[2] + 1, Append(acc, <<"c", a[1][2], a[1][3], 0, TRUE>>))
            ELSE CompileFrom(p, a[2], Append(acc, a[1]))

re_compile(pattern) == CompileFrom(pattern, 1, <<>>)

IsWord(s, i) == CharAt(s, i) \in WordChars

\* \b at position p: between s[p-1] and s[p], exactly one is a word character
IsBoundary(s, p) == IsWord(s, p - 1) # IsWord(s, p)

\* $ without re.MULTILINE: at the end, or just before a final newline
IsEnd(s, p) == p = Len(s) + 1 \/ (p = Len(s) /\ CharAt(s, p) = "\n")

\* re.search with re.IGNORECASE
AtomAccepts_ignorecase(a, c) == c # "" /\ ((({c, SwapChar(c)} \cap a[2]) # {}) # a[3])

AtomAccepts(a, c) == c # "" /\ ((c \in a[2]) # a[3])

RECURSIVE RunLength(_, _, _)
\* number of consecutive characters from p on that atom a accepts
RunLength(a, s, p) ==
    IF AtomAccepts(a, CharAt(s, p)) THEN 1 + RunLength(a, s, p + 1) ELSE 0

RECURSIVE MatchFrom(_, _, _, _)
\* TRUE iff atoms k.. of the compiled pattern match s starting at position p
MatchFrom(atoms, k, s, p) ==
    IF k > Len(atoms) THEN TRUE
    ELSE LET a == atoms[k] IN
         IF a[1] = "b" THEN IsBoundary(s, p) /\ MatchFrom(atoms, k + 1, s, p)
         ELSE IF a[1] = "$" THEN IsEnd(s, p) /\ MatchFrom(atoms, k + 1, s, p)
         ELSE LET run == RunLength(a, s, p)
                  most == IF a[5] THEN run ELSE IF run > 0 THEN 1 ELSE 0
              IN \E n \in a[4]..most : MatchFrom(atoms, k + 1, s, p + n)

\* re.match: the pattern anchored at the start of the string
re_match(pattern, string) == MatchFrom(re_compile(pattern), 1, string, 1)

\* re.search(pattern, string) is not None (no flags: case-sensitive)
re_search(pattern, string) ==
    LET atoms == re_compile(pattern)
    IN \E p \in 1..(Len(string) + 1) : MatchFrom(atoms, 1, string, p)

(***************************************************************************)
(* The rule table, lines 32-83: (pattern, reason, safe_alternative)        *)
(***************************************************************************)
DANGEROUS_PATTERNS == <<
    <<"\\bgit\\s+stash\\b",
      "git stash hides work from other agents",
      "Use 'git add -A && git commit -m \"WIP: ...\"' instead">>,
    <<"\\bgit\\s+checkout\\s+--\\s+\\S+",
      "git checkout -- <file> discards uncommitted changes permanently",
      "Commit your work first: 'git add -A && git commit -m \"WIP: ...\"'">>,
    <<"\\bgit\\s+checkout\\s+-f\\b",
      "git checkout -f discards ALL local changes permanently",
      "Commit your work first: 'git add -A && git commit -m \"WIP: ...\"'">>,
    <<"\\bgit\\s+checkout\\s+\\.\\s*$",
      "git checkout . discards all changes in the directory",
      "Commit your work first: 'git add -A && git commit -m \"WIP: ...\"'">>,
    <<"\\bgit\\s+reset\\s+--hard\\b",
      "git reset --hard destroys commits AND uncommitted changes",
      "Use 'git reset --soft' to keep changes, or 'git revert' to undo commits">>,
    <<"\\bgit\\s+push\\s+--force\\b",
      "git push --force rewrites remote history",
      "Use 'git push' (normal push) or 'git pull --rebase' to sync">>,
    <<"\\bgit\\s+push\\s+-f\\b",
      "git push -f rewrites remote history",
      "Use 'git push' (normal push) or 'git pull --rebase' to sync">>,
    <<"\\bgit\\s+clean\\s+-[fd]*f",
      "git clean -f deletes untracked files permanently",
      "Use 'git clean -n' (dry run) first to see what would be deleted">>,
    <<"\\bgit\\s+branch\\s+-D\\b",
      "git branch -D force deletes unmerged branch",
      "Use 'git branch -d' (lowercase) which only deletes merged branches">>,
    <<"\\bgit\\s+rebase\\s+-i\\b",
      "git rebase -i is interactive and will hang in non-interactive mode",
      "Use 'git reset --soft HEAD~N' to undo commits while keeping changes">>,
    <<"\\bgit\\s+add\\s+-[ip]\\b",
      "git add -i/-p is interactive and will hang in non-interactive mode",
      "Use 'git add <files>' or 'git add -A' instead">> >>

(***************************************************************************)
(* Python values and dict operations                                       *)
(***************************************************************************)
None == <<"NoneType">>
Str(s) == <<"str", s>>
Dict(pairs) == <<"dict", pairs>>
List(items) == <<"list", items>>

IsStr(v) == v[1] = "str"
IsDict(v) == v[1] = "dict"

HasKey(d, k) == \E n \in 1..Len(d[2]) : d[2][n][1] = k

\* d.get(k, default) for a dict d
DictGet(d, k, default) ==
    IF HasKey(d, k)
    THEN d[2][CHOOSE n \in 1..Len(d[2]) : d[2][n][1] = k][2]
    ELSE default

\* d[k] = v: a key already present keeps its position
DictSet(d, k, v) ==
    IF HasKey(d, k)
    THEN Dict([n \in 1..Len(d[2]) |-> IF d[2][n][1] = k THEN <<k, v>> ELSE d[2][n]])
    ELSE Dict(Append(d[2], <<k, v>>))

(***************************************************************************)
(* json.loads: the decoder of the standard library, character by character *)
(* A parse returns <<"ok", value, end>>, <<"JSONDecodeError">> or          *)
(* <<"RecursionError">>.                                                   *)
(***************************************************************************)
\* The number of nested containers the decoder can enter before it raises
\* RecursionError: sys.getrecursionlimit() is 1000 and main's call of
\* json.load is a few frames deep (CPython 3.11: 993 nested arrays are
\* read, the 994th raises).
RecursionLimit == 993

JSONDecodeError == <<"JSONDecodeError">>
RecursionError == <<"RecursionError">>

JsonWs == {" ", "\t", "\n", "\r"}

RECURSIVE SkipWs(_, _)
SkipWs(s, p) == IF CharAt(s, p) \in JsonWs THEN SkipWs(s, p + 1) ELSE p

IsDigit(c) == c # "" /\ c \in CharsOf(Digits)

RECURSIVE DigitsEnd(_, _)
\* index after the run of digits that starts at p
DigitsEnd(s, p) == IF IsDigit(CharAt(s, p)) THEN DigitsEnd(s, p + 1) ELSE p

\* NUMBER_RE (-?(?:0|[1-9]\d*))(\.\d+)?([eE][-+]?\d+)? matched at p:
\* <<end, kind>>, or <<0, "">> when it does not match
NumberAt(s, p) ==
    LET q == IF CharAt(s, p) = "-" THEN p + 1 ELSE p
        intEnd == IF CharAt(s, q) = "0" THEN q + 1
                  ELSE IF IsDigit(CharAt(s, q)) THEN DigitsEnd(s, q)
                  ELSE 0
        fracEnd == IF CharAt(s, intEnd) = "." /\ IsDigit(CharAt(s, intEnd + 1))
                   THEN DigitsEnd(s, intEnd + 1) ELSE intEnd
        r == IF CharAt(s, fracEnd + 1) \in {"-", "+"} THEN fracEnd + 2 ELSE fracEnd + 1
        expEnd == IF CharAt(s, fracEnd) \in {"e", "E"} /\ IsDigit(CharAt(s, r))
                  THEN DigitsEnd(s, r) ELSE fracEnd
    IN IF intEnd = 0 THEN <<0, "">>
       ELSE <<expEnd, IF expEnd = intEnd THEN "int" ELSE "float">>

\* the character an escape sequence \e stands for, "" when the escape is
\* invalid (\b and \uXXXX denote characters outside the model's alphabet)
Unescape(e) ==
    IF e = "\"" THEN "\""
    ELSE IF e = "\\" THEN "\\"
    ELSE IF e = "/" THEN "/"
    ELSE IF e = "n" THEN "\n"
    ELSE IF e = "r" THEN "\r"
    ELSE IF e = "t" THEN "\t"
    ELSE IF e = "f" THEN "\f"
    ELSE ""

ControlChars == {"\t", "\n", "\r", "\f"}

\* smallest index >= p of a character of s that is in set, Len(s) + 1 if none
NextOf(s, p, set) ==
    LET found == { j \in p..Len(s) : CharAt(s, j) \in set } IN
    IF found = {} THEN Len(s) + 1
    ELSE CHOOSE j \in found : \A k \in found : j <= k

RECURSIVE ScanString(_, _, _)
\* py_scanstring, strict: p is the index after the opening quote; the text
\* is taken in chunks that end at a quote, a backslash or a control character
ScanString(s, p, acc) ==
    LET q == NextOf(s, p, {"\"", "\\"} \cup ControlChars)
        chunk == acc \o Slice(s, p, q - 1)
        c == CharAt(s, q)
    IN
    IF c = "" THEN JSONDecodeError
    ELSE IF c = "\"" THEN <<"ok", chunk, q + 1>>
    ELSE IF c \in ControlChars THEN JSONDecodeError
    ELSE IF Unescape(CharAt(s, q + 1)) = "" THEN JSONDecodeError
    ELSE ScanString(s, q + 2, chunk \o Unescape(CharAt(s, q + 1)))

\* the number of consecutive characters c in s from index p on
RunOf(s, p, c) ==
    LET others == { j \in p..Len(s) : CharAt(s, j) # c } IN
    IF others = {} THEN Len(s) + 1 - p
    ELSE (CHOOSE j \in others : \A k \in others : j <= k) - p

RECURSIVE ScanOnce(_, _, _)
RECURSIVE ObjectMembers(_, _, _, _)
RECURSIVE ArrayItems(_, _, _, _)

\* JSONObject: p is the index of the opening quote of the next key
ObjectMembers(s, p, depth, acc) ==
    IF CharAt(s, p) # "\"" THEN JSONDecodeError
    ELSE LET key == ScanString(s, p + 1, "") IN
         IF key[1] # "ok" THEN key
         ELSE LET colon == SkipWs(s, key[3]) IN
              IF CharAt(s, colon) # ":" THEN JSONDecodeError
              ELSE LET val == ScanOnce(s, SkipWs(s, colon + 1), depth) IN
                   IF val[1] # "ok" THEN val
                   ELSE LET e == SkipWs(s, val[3])
                            d == DictSet(acc, key[2], val[2])
                        IN IF CharAt(s, e) = "}" THEN <<"ok", d, e + 1>>
                           ELSE IF CharAt(s, e) # "," THEN JSONDecodeError
                           ELSE ObjectMembers(s, SkipWs(s, e + 1), depth, d)

\* JSONArray: p is the index of the next item
ArrayItems(s, p, depth, acc) ==
    LET val == ScanOnce(s, p, depth) IN
    IF val[1] # "ok" THEN val
    ELSE LET e == SkipWs(s, val[3])
             items == Append(acc, val[2])
         IN IF CharAt(s, e) = "]" THEN <<"ok", List(items), e + 1>>
            ELSE IF CharAt(s, e) # "," THEN JSONDecodeError
            ELSE ArrayItems(s, SkipWs(s, e + 1), depth, items)

\* scan_once: the value that starts at index p, inside depth containers
ScanOnce(s, p, depth) ==
    LET c == CharAt(s, p)
        num == NumberAt(s, p)
    IN
    IF c = "" THEN JSONDecodeError
    ELSE IF c = "\"" THEN
        LET r == ScanString(s, p + 1, "") IN
        IF r[1] = "ok" THEN <<"ok", Str(r[2]), r[3]>> ELSE r
    ELSE IF c = "{" THEN
        IF depth >= RecursionLimit THEN RecursionError
        ELSE LET q == SkipWs(s, p + 1) IN
             IF CharAt(s, q) = "}" THEN <<"ok", Dict(<<>>), q + 1>>
             ELSE ObjectMembers(s, q, depth + 1, Dict(<<>>))
    ELSE IF c = "[" THEN
        \* a run of k opening brackets enters k arrays before anything else
        \* is looked at
        IF depth + RunOf(s, p, "[") > RecursionLimit THEN RecursionError
        ELSE LET q == SkipWs(s, p + 1) IN
             IF CharAt(s, q) = "]" THEN <<"ok", List(<<>>), q + 1>>
             ELSE ArrayItems(s, q, depth + 1, <<>>)
    ELSE IF Slice(s, p, p + 3) = "null" THEN <<"ok", None, p + 4>>
    ELSE IF Slice(s, p, p + 3) = "true" THEN <<"ok", <<"bool", TRUE>>, p + 4>>
    ELSE IF Slice(s, p, p + 4) = "false" THEN <<"ok", <<"bool", FALSE>>, p + 5>>
    ELSE IF num[1] # 0 THEN <<"ok", <<num[2], SubSeq(s, p, num[1] - 1)>>, num[1]>>
    ELSE IF Slice(s, p, p + 2) = "NaN" THEN <<"ok", <<"float", "NaN">>, p + 3>>
    ELSE IF Slice(s, p, p + 7) = "Infinity" THEN <<"ok", <<"float", "Infinity">>, p + 8>>
    ELSE IF Slice(s, p, p + 8) = "-Infinity" THEN <<"ok", <<"float", "-Infinity">>, p + 9>>
    ELSE JSONDecodeError

\* JSONDecoder.decode: one value between optional whitespace, nothing after
json_loads(s) ==
    LET r == ScanOnce(s, SkipWs(s, 1), 0) IN
    IF r[1] # "ok" THEN r
    ELSE IF SkipWs(s, r[3]) # Len(s) + 1 THEN JSONDecodeError
    ELSE r

(***************************************************************************)
(* json.dumps with the default separators                                  *)
(***************************************************************************)
EscapeChar(c) ==
    IF c = "\"" THEN "\\\""
    ELSE IF c = "\\" THEN "\\\\"
    ELSE IF c = "\n" THEN "\\n"
    ELSE IF c = "\r" THEN "\\r"
    ELSE IF c = "\t" THEN "\\t"
    ELSE IF c = "\f" THEN "\\f"
    ELSE c

Escaped == {"\"", "\\", "\n", "\r", "\t", "\f"}

RECURSIVE EscapeFrom(_, _)
\* ESCAPE_ASCII.sub(replace, s) from index p on
EscapeFrom(s, p) ==
    LET q == NextOf(s, p, Escaped) IN
    IF q > Len(s) THEN Slice(s, p, Len(s))
    ELSE Slice(s, p, q - 1) \o EscapeChar(CharAt(s, q)) \o EscapeFrom(s, q + 1)

EncodeStr(s) == "\"" \o EscapeFrom(s, 1) \o "\""

RECURSIVE json_dumps(_)
RECURSIVE DumpPairs(_, _)
RECURSIVE DumpItems(_, _)

DumpPairs(pairs, n) ==
    IF n > Len(pairs) THEN ""
    ELSE (IF n > 1 THEN ", " ELSE "")
         \o EncodeStr(pairs[n][1]) \o ": " \o json_dumps(pairs[n][2])
         \o DumpPairs(pairs, n + 1)

DumpItems(items, n) ==
    IF n > Len(items) THEN ""
    ELSE (IF n > 1 THEN ", " ELSE "") \o json_dumps(items[n]) \o DumpItems(items, n + 1)

json_dumps(v) ==
    IF v[1] = "str" THEN EncodeStr(v[2])
    ELSE IF v[1] = "dict" THEN "{" \o DumpPairs(v[2], 1) \o "}"
    ELSE IF v[1] = "list" THEN "[" \o DumpItems(v[2], 1) \o "]"
    ELSE IF v[1] = "NoneType" THEN "null"
    ELSE IF v[1] = "bool" THEN (IF v[2] THEN "true" ELSE "false")
    ELSE v[2]

(***************************************************************************)
(* Inputs: the environment and the text on standard input                  *)
(***************************************************************************)
\* longest arbitrary text on standard input
MaxRawLen == 2
\* deepest nest of arrays on standard input, and by how many levels a
\* deep nest exceeds what the decoder can enter
MaxNesting == 3

RawAlphabet == {"{", "}", "[", "]", "\"", "1", ",", ":", " ", "x"}

RECURSIVE TextsOfLen(_)
TextsOfLen(n) ==
    IF n = 0 THEN {""} ELSE { t \o c : t \in TextsOfLen(n - 1), c \in RawAlphabet }

RawTexts == UNION { TextsOfLen(n) : n \in 0..MaxRawLen }

RECURSIVE Nest(_)
Nest(n) == IF n = 0 THEN "" ELSE "[" \o Nest(n - 1) \o "]"

RECURSIVE Opened(_)
Opened(n) == IF n = 0 THEN "" ELSE "[" \o Opened(n - 1)

RECURSIVE Repeat(_, _)
\* s * n
Repeat(s, n) ==
    IF n = 0 THEN ""
    ELSE LET half == Repeat(s, n \div 2) IN
         half \o half \o (IF n % 2 = 1 THEN s ELSE "")

NestedTexts == { Nest(n) : n \in 1..MaxNesting } \cup { Opened(n) : n \in 1..MaxNesting }

\* arrays nested deeper than the decoder can enter, closed or not
DeepTexts ==
    { Repeat("[", RecursionLimit + n) : n \in 1..MaxNesting }
    \cup { Repeat("[", RecursionLimit + 1) \o Repeat("]", RecursionLimit + 1) }

\* values of ZEROSHOT_WORKTREE; the empty dict is the variable unset
FlagValues == {"1", "0", "", "11", "true", " 1"}
Environs == {Dict(<<>>)} \cup { Dict(<< <<"ZEROSHOT_WORKTREE", Str(f)>> >>) : f \in FlagValues }

RECURSIVE SwapFrom(_, _)
SwapFrom(s, i) == IF i > Len(s) THEN "" ELSE SwapChar(CharAt(s, i)) \o SwapFrom(s, i + 1)

\* the token with the case of every letter changed
SwapCase(tok) == SwapFrom(tok, 1)

\* the token with the case of the letter at index k changed
ChangeAt(tok, k) ==
    Slice(tok, 1, k - 1) \o SwapChar(CharAt(tok, k)) \o Slice(tok, k + 1, Len(tok))

\* the token with the case of one of its letters, or of all of them, changed
LetterChanges(tok) ==
    ({ ChangeAt(tok, k) : k \in 1..Len(tok) } \cup {SwapCase(tok)}) \ {tok}

\* the token with the case of all of its letters changed
WholeChange(tok) == {SwapCase(tok)} \ {tok}

\* the forms the module docstring (lines 9-17) lists as blocked:
\* <<"git" word, subcommand, flag, arguments, index of the rule>>
BlockedForms == <<
    <<"git", "stash", "", "", 1>>,
    <<"git", "checkout", "-f", "", 3>>,
    <<"git", "checkout", ".", "", 4>>,
    <<"git", "reset", "--hard", "", 5>>,
    <<"git", "push", "--force", "", 6>>,
    <<"git", "push", "-f", "", 7>>,
    <<"git", "clean", "-f", "", 8>>,
    <<"git", "clean", "-fd", "", 8>>,
    <<"git", "branch", "-D", " feature-x", 9>>,
    <<"git", "rebase", "-i", "", 10>>,
    <<"git", "add", "-i", "", 11>>,
    <<"git", "add", "-p", "", 11>> >>

Join(g, sub, flag, rest) == g \o " " \o sub \o (IF flag = "" THEN "" ELSE " " \o flag) \o rest

Canonical(f) == Join(f[1], f[2], f[3], f[4])

\* the form with the letter case of the "git" word, of the subcommand or of
\* the flag changed, in one letter or in all letters of the token, and the
\* form with all three tokens changed
CaseVariants(f) ==
    { Join(g, f[2], f[3], f[4]) : g \in LetterChanges(f[1]) }
    \cup { Join(f[1], sub, f[3], f[4]) : sub \in LetterChanges(f[2]) }
    \cup { Join(f[1], f[2], flag, f[4]) : flag \in LetterChanges(f[3]) }
    \cup { Join(SwapCase(f[1]), SwapCase(f[2]), SwapCase(f[3]), f[4]) }

VariantTable == [n \in 1..Len(BlockedForms) |-> CaseVariants(BlockedForms[n])]

\* the same, the flag changed only in all of its letters at once
WholeFlagVariants(f) ==
    { Join(g, f[2], f[3], f[4]) : g \in LetterChanges(f[1]) }
    \cup { Join(f[1], sub, f[3], f[4]) : sub \in LetterChanges(f[2]) }
    \cup { Join(f[1], f[2], flag, f[4]) : flag \in WholeChange(f[3]) }
    \cup { Join(SwapCase(f[1]), SwapCase(f[2]), SwapCase(f[3]), f[4]) }

WholeFlagTable == [n \in 1..Len(BlockedForms) |-> WholeFlagVariants(BlockedForms[n])]

Cores == {
    "git stash", "git stash pop", "git  stash",
    "git checkout -- a.txt",
    "git checkout -f", "git checkout -f main",
    "git checkout .", "git checkout . ",
    "git reset --hard", "git reset --hard HEAD~1",
    "git push --force", "git push --force origin main",
    "git push -f",
    "git clean -f", "git clean -fd", "git clean -df", "git clean -fD",
    "git branch -D feature-x",
    "git rebase -i", "git rebase -i HEAD~3",
    "git add -i", "git add -p",
    "git status", "", "git branch -d feature-x", "git add -A", "git clean -n",
    "git checkout main", "git checkout ./src", "git push", "git reset --soft HEAD~1",
    "stash", "git commit -m stash",
    "git push -f && git stash", "git add -p; git checkout -f",
    "git branch -D x && git clean -fd", "git checkout . && git reset --hard" }

\* text that ends in whitespace or a chain operator
ChainPrefixes == {"cd repo && ", "ls;"}
\* text that begins with whitespace, a pipe or a chain operator
ChainSuffixes == {" && git status", " | cat", ";ls"}

Prefixes == {"", "le", "X"} \cup ChainPrefixes
Suffixes == {"", "es", "\n"} \cup ChainSuffixes

Commands ==
    { pre \o c \o suf : pre \in Prefixes, c \in Cores, suf \in Suffixes }
    \cup { Canonical(BlockedForms[n]) : n \in 1..Len(BlockedForms) }
    \cup UNION { VariantTable[n] : n \in 1..Len(BlockedForms) }

Absent == <<"absent">>

NonStrings == {
    None, <<"int", "5">>, <<"float", "1.5">>, <<"bool", TRUE>>, <<"bool", FALSE>>,
    List(<<>>), List(<<Str("git stash")>>), Dict(<<>>),
    Dict(<< <<"command", Str("git stash")>> >>) }

ToolNames == {
    Absent, Str("Bash"), Str("bash"), Str("BASH"), Str("Edit"), Str(""),
    None, <<"int", "5">>, List(<<Str("Bash")>>) }

SampleCommands == {"git stash", "git push --force origin main", "git status", "git reset --hard", ""}

ToolInputs ==
    {Absent, Dict(<<>>), Str("git stash"), None, <<"int", "5">>, List(<<Str("git stash")>>),
     Dict(<< <<"cmd", Str("git stash")>> >>)}
    \cup { Dict(<< <<"command", v>> >>) : v \in NonStrings }
    \cup { Dict(<< <<"command", Str(c)>> >>) : c \in SampleCommands }

\* the request the host runtime sends, without the absent fields
Request(tn, ti) ==
    Dict((IF tn = Absent THEN <<>> ELSE << <<"tool_name", tn>> >>)
         \o (IF ti = Absent THEN <<>> ELSE << <<"tool_input", ti>> >>))

BashRequest(c) == Request(Str("Bash"), Dict(<< <<"command", Str(c)>> >>))

HandWritten == {
    "{\"tool_input\":{\"command\":\"git stash\"},\"tool_name\":\"Bash\",\"session_id\":\"s1\"}",
    " {\"tool_name\" : \"Bash\" ,\n \"tool_input\" : { \"command\" : \"git reset --hard\" } }\n",
    "{\"tool_name\": \"Edit\", \"tool_name\": \"Bash\", \"tool_input\": {\"command\": \"git push -f\"}}",
    "{\"tool_name\": \"Bash\", \"tool_name\": \"Edit\", \"tool_input\": {\"command\": \"git push -f\"}}",
    "{\"tool_name\": \"Bash\", \"tool_input\": {\"command\": \"git stash\", \"command\": \"git status\"}}",
    "{\"tool_name\": \"Bash\", \"tool_input\": {\"command\": \"git stash\"}",
    "{\"tool_name\": \"Bash\", \"tool_input\": {\"command\": \"git stash}}",
    "{\"tool_name\": \"Bash\", \"tool_input\": {\"command\": \"git stash\"}} trailing",
    "{\"tool_name\": \"Bash\", \"tool_input\": {\"command\": \"git stash\",}}",
    "{'tool_name': 'Bash', 'tool_input': {'command': 'git stash'}}",
    "git stash", "\"git stash\"", "NaN", "-Infinity", "tru", "1.5e3" }

Payloads ==
    RawTexts \cup NestedTexts \cup DeepTexts \cup HandWritten
    \cup { json_dumps(v) : v \in NonStrings }
    \cup { json_dumps(Request(tn, ti)) : tn \in ToolNames, ti \in ToolInputs }
    \cup { json_dumps(BashRequest(c)) : c \in Commands }

(***************************************************************************)
(* State                                                                   *)
(***************************************************************************)
VARIABLES
    environ,      \* os.environ
    stdin,        \* the text on standard input
    stdin_pos,    \* how much of it has been read
    stdout,       \* the text written to standard output
    rules,        \* the module-level list DANGEROUS_PATTERNS
    pc,           \* the line main() is at
    input_data, tool_name, tool_input, command, result,   \* locals of main
    i,            \* the rule check_command's loop is at
    exception,    \* the uncaught exception, "" when there is none
    exit_status   \* the exit status of the process, -1 while it runs

vars == <<environ, stdin, stdin_pos, stdout, rules, pc, input_data, tool_name,
          tool_input, command, result, i, exception, exit_status>>

Unbound == <<"unbound">>

Init ==
    /\ environ \in Environs
    /\ stdin \in Payloads
    /\ stdin_pos = 0
    /\ stdout = ""
    /\ rules = DANGEROUS_PATTERNS
    /\ pc = "activation"
    /\ input_data = Unbound /\ tool_name = Unbound /\ tool_input = Unbound
    /\ command = Unbound /\ result = Unbound
    /\ i = 0
    /\ exception = ""
    /\ exit_status = -1

\* sys.exit(0)
SysExit ==
    /\ pc' = "exited"
    /\ exit_status' = 0
    /\ exception' = exception

\* an exception nothing catches: traceback on stderr, exit status 1
Raise(exc) ==
    /\ pc' = "exited"
    /\ exit_status' = 1
    /\ exception' = exc

Continue(next) ==
    /\ pc' = next
    /\ UNCHANGED <<exit_status, exception>>

\* a truthiness test of the flag instead of the comparison with "1"
Activated_truthy(env) ==
    DictGet(env, "ZEROSHOT_WORKTREE", None) \notin {None, Str(""), Str("0")}

\* os.environ.get("ZEROSHOT_WORKTREE") != "1" is false
Activated(env) == DictGet(env, "ZEROSHOT_WORKTREE", None) = Str("1")

\* lines 102-104
ActivationCheck ==
    /\ pc = "activation"
    /\ IF ~Activated(environ) THEN SysExit ELSE Continue("load")
    /\ UNCHANGED <<environ, stdin, stdin_pos, stdout, rules, input_data, tool_name,
                   tool_input, command, result, i>>

\* lines 106-110: json.load(sys.stdin) reads all of the input
LoadRequest ==
    /\ pc = "load"
    /\ stdin_pos' = Len(stdin)
    /\ LET r == json_loads(stdin) IN
       IF r[1] = "ok" THEN input_data' = r[2] /\ Continue("tool_filter")
       ELSE IF r = JSONDecodeError THEN input_data' = input_data /\ SysExit
       ELSE input_data' = input_data /\ Raise(r[1])
    /\ UNCHANGED <<environ, stdin, stdout, rules, tool_name, tool_input, command, result, i>>

\* a comparison of the tool name that ignores letter case
IsBashTool_anycase(name) == name \in {Str("Bash"), Str("bash"), Str("BASH")}

\* tool_name != "Bash" is false
IsBashTool(name) == name = Str("Bash")

\* lines 112-116
ToolFilter ==
    /\ pc = "tool_filter"
    /\ IF ~IsDict(input_data)
       THEN tool_name' = tool_name /\ Raise("AttributeError")
       ELSE /\ tool_name' = DictGet(input_data, "tool_name", Str(""))
            /\ IF ~IsBashTool(tool_name') THEN SysExit ELSE Continue("extract")
    /\ UNCHANGED <<environ, stdin, stdin_pos, stdout, rules, input_data, tool_input,
                   command, result, i>>

\* lines 118-119
ExtractCommand ==
    /\ pc = "extract"
    /\ tool_input' = DictGet(input_data, "tool_input", Dict(<<>>))
    /\ IF ~IsDict(tool_input')
       THEN command' = command /\ i' = i /\ Raise("AttributeError")
       ELSE /\ command' = DictGet(tool_input', "command", Str(""))
            /\ i' = 1
            /\ Continue("check_command")
    /\ UNCHANGED <<environ, stdin, stdin_pos, stdout, rules, input_data, tool_name, result>>

\* the table scanned from its last rule to its first
RuleAt_reversed(rs, n) == rs[Len(rs) + 1 - n]

\* the rule the loop of check_command consults in its n-th iteration
RuleAt(rs, n) == rs[n]

\* lines 94-96: one iteration of the loop of check_command
CheckRule ==
    /\ pc = "check_command"
    /\ i <= Len(rules)
    /\ IF ~IsStr(command)
       THEN UNCHANGED <<result, i>> /\ Raise("TypeError")
       ELSE IF re_search(RuleAt(rules, i)[1], command[2])
       THEN /\ result' = <<"tuple", <<TRUE, RuleAt(rules, i)[2], RuleAt(rules, i)[3]>>>>
            /\ i' = i
            /\ Continue("verdict")
       ELSE /\ i' = i + 1
            /\ result' = result
            /\ Continue("check_command")
    /\ UNCHANGED <<environ, stdin, stdin_pos, stdout, rules, input_data, tool_name,
                   tool_input, command>>

\* line 97: no rule matched
CheckDone ==
    /\ pc = "check_command"
    /\ i > Len(rules)
    /\ result' = None
    /\ Continue("verdict")
    /\ UNCHANGED <<environ, stdin, stdin_pos, stdout, rules, input_data, tool_name,
                   tool_input, command, i>>

\* lines 129-133
Message(reason, alternative) ==
    "[GIT-SAFE BLOCKED] " \o reason \o "\n\n"
    \o "Safe alternative: " \o alternative \o "\n\n"
    \o "NO BYPASS EXISTS. Use the safe alternative above."

\* a decision other than deny
Output_allow(reason, alternative) ==
    Dict(<< <<"hookSpecificOutput",
              Dict(<< <<"hookEventName", Str("PreToolUse")>>,
                      <<"permissionDecision", Str("allow")>>,
                      <<"permissionDecisionReason", Str(Message(reason, alternative))>> >>)>> >>)

\* lines 125-135
Output(reason, alternative) ==
    Dict(<< <<"hookSpecificOutput",
              Dict(<< <<"hookEventName", Str("PreToolUse")>>,
                      <<"permissionDecision", Str("deny")>>,
                      <<"permissionDecisionReason", Str(Message(reason, alternative))>> >>)>> >>)

\* print(text)
Printed(text) == text \o "\n"

\* lines 123-140
Verdict ==
    /\ pc = "verdict"
    /\ IF result # None
       THEN stdout' = stdout \o Printed(json_dumps(Output(result[2][2], result[2][3])))
       ELSE stdout' = stdout
    /\ SysExit
    /\ UNCHANGED <<environ, stdin, stdin_pos, rules, input_data, tool_name, tool_input,
                   command, result, i>>

Next ==
    \/ ActivationCheck
    \/ LoadRequest
    \/ ToolFilter
    \/ ExtractCommand
    \/ CheckRule
    \/ CheckDone
    \/ Verdict

Spec == Init /\ [][Next]_vars

(***************************************************************************)
(* Properties                                                              *)
(***************************************************************************)
Flag == DictGet(environ, "ZEROSHOT_WORKTREE", None)
Exited == pc = "exited"

\* the no-decision verdict: nothing written, exit status 0, no traceback
NoDecision == stdout = "" /\ exit_status = 0 /\ exception = ""

\* the indices of the rules of the table that match command text c
Matching(c) == { n \in 1..Len(DANGEROUS_PATTERNS) : re_search(DANGEROUS_PATTERNS[n][1], c) }

MinOf(S) == CHOOSE n \in S : \A m \in S : n <= m

Contains(s, sub) ==
    \E p \in 1..(Len(s) + 1) : Slice(s, p, p + Len(sub) - 1) = sub

\* the deny object for rule n, as the external interface states it
ClaimedOutput(n) ==
    Dict(<< <<"hookSpecificOutput",
              Dict(<< <<"hookEventName", Str("PreToolUse")>>,
                      <<"permissionDecision", Str("deny")>>,
                      <<"permissionDecisionReason",
                        Str("[GIT-SAFE BLOCKED] " \o DANGEROUS_PATTERNS[n][2]
                            \o "\n\nSafe alternative: " \o DANGEROUS_PATTERNS[n][3]
                            \o "\n\nNO BYPASS EXISTS. Use the safe alternative above.")>> >>)>> >>)

DenyLines == [n \in 1..Len(DANGEROUS_PATTERNS) |-> json_dumps(ClaimedOutput(n)) \o "\n"]

\* a deny verdict was written, for whichever rule
Denied == exit_status = 0 /\ exception = "" /\ \E n \in 1..Len(DANGEROUS_PATTERNS) : stdout = DenyLines[n]

\* main got as far as evaluating a string command of a Bash request
Evaluated ==
    /\ Exited
    /\ Flag = Str("1")
    /\ tool_name = Str("Bash")
    /\ IsStr(command)

\* C1: whenever ZEROSHOT_WORKTREE is unset or differs from "1", main exits
\* with status 0 and has written nothing, and standard input was never read
C1_ActivationGating ==
    (Exited /\ Flag # Str("1")) =>
        /\ NoDecision
        /\ stdin_pos = 0
        /\ input_data = Unbound

C1_Witness ==
    /\ Exited
    /\ Flag = Str("0")
    /\ stdin = json_dumps(BashRequest("git reset --hard"))
    /\ stdout = ""

\* C2: whatever the flag and the input, main ends with exit status 0 and
\* no exception reaches the caller
C2_AlwaysSuccess == Exited => (exit_status = 0 /\ exception = "")

\* C3: for a Bash request whose tool_input is a mapping without a command,
\* or with a command that is not a string, the verdict is no-decision and no
\* error occurs
C3_CommandExtractionNeverErrors ==
    (/\ Exited
     /\ Flag = Str("1")
     /\ IsDict(input_data)
     /\ DictGet(input_data, "tool_name", Str("")) = Str("Bash")
     /\ IsDict(DictGet(input_data, "tool_input", Dict(<<>>)))
     /\ ~IsStr(DictGet(DictGet(input_data, "tool_input", Dict(<<>>)), "command", None)))
    => NoDecision

\* C4: with the flag "1", every input that the JSON decoder cannot parse
\* yields no-decision, without a crash
C4_FailOpenOnMalformedInput ==
    (Exited /\ Flag = Str("1") /\ input_data = Unbound) => NoDecision

\* C5: with the flag "1" and a request object whose tool_name is not exactly
\* "Bash" (absent included), the verdict is no-decision and the command is
\* never looked at
C5_ToolFilter ==
    (/\ Exited
     /\ Flag = Str("1")
     /\ IsDict(input_data)
     /\ DictGet(input_data, "tool_name", Str("")) # Str("Bash"))
    => (NoDecision /\ command = Unbound /\ result = Unbound)

C5_Witness ==
    /\ Exited
    /\ Flag = Str("1")
    /\ stdin = json_dumps(Request(Str("bash"), Dict(<< <<"command", Str("git stash")>> >>)))
    /\ Matching("git stash") # {}
    /\ stdout = ""

\* C6: the table is the same 11 rules in every state, and for a command that
\* matches some rule, check_command returns the reason and alternative of
\* the matching rule of smallest index, its loop stops at that rule, and the
\* line written is the deny line of that rule and contains the reason of no
\* other rule
C6_FirstMatchWins ==
    /\ rules = DANGEROUS_PATTERNS
    /\ Len(rules) = 11
    /\ (Evaluated /\ Matching(command[2]) # {}) =>
          LET first == MinOf(Matching(command[2])) IN
          /\ result = <<"tuple", <<TRUE, DANGEROUS_PATTERNS[first][2], DANGEROUS_PATTERNS[first][3]>>>>
          /\ i = first
          /\ stdout = DenyLines[first]
          /\ \A n \in 1..Len(DANGEROUS_PATTERNS) :
                n # first => ~Contains(stdout, DANGEROUS_PATTERNS[n][2])

C6_Witness ==
    /\ Evaluated
    /\ command = Str("git push -f && git stash")
    /\ Matching(command[2]) = {1, 7}
    /\ stdout = DenyLines[1]

\* C7: for a Bash request with a string command, standard output holds
\* exactly one JSON object, the deny object of the first matching rule, when
\* some rule matches, and is empty when none does; nothing but a deny object
\* is ever written
C7_VerdictEmission ==
    /\ Evaluated =>
          /\ exit_status = 0
          /\ (Matching(command[2]) = {}) <=> (stdout = "")
          /\ Matching(command[2]) # {} =>
                /\ json_loads(stdout) =
                     <<"ok", ClaimedOutput(MinOf(Matching(command[2]))), Len(stdout)>>
                /\ CharAt(stdout, Len(stdout)) = "\n"
    /\ stdout # "" => (Evaluated /\ Denied)

C7_Witness ==
    /\ Evaluated
    /\ command = Str("git push --force origin main")
    /\ Contains(stdout, "rewrites remote history")
    /\ Contains(stdout, "Use 'git push'")
    /\ Contains(stdout, "\"permissionDecision\": \"deny\"")

\* C8 as stated: every Bash command that contains "git stash", whatever the
\* text before and after it, is denied
C8_AnyTextAroundStash ==
    (Evaluated /\ Contains(command[2], "git stash")) => Denied

\* "git stash" occurs in s with no word character right before "git" and
\* none right after "stash"
StashAsWords(s) ==
    \E p \in 1..Len(s) :
        /\ Slice(s, p, p + 8) = "git stash"
        /\ CharAt(s, p - 1) \notin WordChars
        /\ CharAt(s, p + 9) \notin WordChars

\* C8 amended: every Bash command that contains "git stash" with no word
\* character right before "git" and none right after "stash" is denied, with
\* the reason of the stash rule
C8_StashAsWordsDenied ==
    (Evaluated /\ StashAsWords(command[2])) => (Denied /\ stdout = DenyLines[1])

C8_Witness ==
    /\ Evaluated
    /\ command = Str("cd repo && git stash pop | cat")
    /\ stdout = DenyLines[1]

\* the two commands that C9 names: "git branch -d feature-x" matches neither
\* the branch-deletion rule nor any other and yields no-decision, and "git
\* branch -D feature-x" is denied with the reason of the branch-deletion rule
BranchDeleteCases ==
    /\ command = Str("git branch -d feature-x") =>
          /\ ~re_search(DANGEROUS_PATTERNS[9][1], command[2])
          /\ Matching(command[2]) = {}
          /\ NoDecision
    /\ command = Str("git branch -D feature-x") =>
          /\ re_search(DANGEROUS_PATTERNS[9][1], command[2])
          /\ stdout = DenyLines[9]
          /\ Contains(stdout, "git branch -D force deletes unmerged branch")

\* the rule that blocks form n neither matches command text c nor denies it
NotBlockedAs(n, c) ==
    /\ ~re_search(DANGEROUS_PATTERNS[BlockedForms[n][5]][1], c)
    /\ stdout # DenyLines[BlockedForms[n][5]]

Chained(c) ==
    \E pre \in ChainPrefixes, suf \in ChainSuffixes :
        /\ Len(c) >= Len(pre) + Len(suf)
        /\ Slice(c, 1, Len(pre)) = pre
        /\ Slice(c, Len(c) - Len(suf) + 1, Len(c)) = suf
        /\ Matching(Slice(c, Len(pre) + 1, Len(c) - Len(suf))) # {}

\* C10: a command that some rule matches is still denied when text ending
\* in whitespace or a chain operator is put before it and text beginning
\* with whitespace, a pipe or a chain operator after it
C10_MatchAnywhere ==
    (Evaluated /\ Chained(command[2])) => Denied
====
